---- MODULE Spec2Model ----
(***************************************************************************)
(* Commit-job monitoring and HA synchronisation of eve-ng_automation_PA.   *)
(*                                                                         *)
(* Two parts of the program are modelled, each request to a firewall being *)
(* one action (the request, the handling of its response and all the code  *)
(* up to the next request):                                                *)
(*   - PaloAltoFirewall_HA: get_api_key and commit_changes                 *)
(*     (src/src/pa_deployment_ha.py);                                      *)
(*   - PaloAltoFirewall_config: commit_changes, force_sync_config and      *)
(*     wait_for_sync_completion (src/src/pa_deployment_config.py), in the  *)
(*     order main() calls them (src/src/main_pa.py).                       *)
(* The firewalls are the environment: every response is drawn from the set *)
(* of responses the handling code distinguishes.                           *)
(***************************************************************************)
EXTENDS Integers, Sequences, FiniteSets, TLC

\* ------------------------------------------------------------- bounds
NumDevices == 2
MaxJobId == 1
MaxPolls == 4
TimeBudget == 2

\* --------------------------------------------------- program constants
max_checks == 8

\* ------------------------------------------------------------ values
Devices == 1..NumDevices
JobIds == 1..MaxJobId
\* Python's None (findtext of an absent element), also the empty job text.
None == 0
\* A local name that was never bound (jobid of commit_changes, line 336).
Unbound == -1

\* The hosts of the credentials file, in its order: a file that names every
\* firewall once, and a file whose entries all name the same host (nothing
\* in the program keeps the hosts of the file apart).
DistinctHosts == [d \in 1..NumDevices |-> d]
RepeatedHost == [d \in 1..NumDevices |-> 1]

\* Responses to the keygen request, as get_api_key tells them apart.
KeyResps == {"ok", "non200", "exception", "nokey"}
\* Responses to the commit request (StartCommit).
StartKinds == {"exception", "non200", "malformed", "noresult", "nojob", "job"}
StartResps ==
    [kind : StartKinds \ {"job"}, job : {None}] \cup [kind : {"job"}, job : JobIds]
\* Responses to the show-jobs request (QueryJob): a transport exception, a
\* status other than 200, a body that does not parse, a body with no job
\* element, and the job's status/result.
PollResps ==
    {"exception", "non200", "malformed", "nojobelem",
     "ACT", "FIN_OK", "FIN_FAIL", "PEND"}
\* Responses to the HA state request (QueryHAState): failures, or the text of
\* group/running-sync (None when the element is absent).
SyncTexts ==
    {"synchronized", "synchronization in progress", "sync in progress",
     "syncing", "not synchronized", "unknown"}
SyncResps == {"exception", "non200", "malformed"} \cup SyncTexts
\* The texts wait_for_sync_completion takes as "still in progress" (line 473).
InProgressTexts == {"synchronization in progress", "sync in progress", "syncing"}
\* Responses to the sync-to-remote request (TriggerSync).
TriggerResps == {"exception", "non200", "ok"}

Raises(resp) == resp \in {"exception", "malformed"}

VARIABLES
    pc,              \* the control point: the request the program sends next
    api_keys_list,   \* PaloAltoFirewall_HA.api_keys_list (a key is named by its device)
    i,               \* position of the running for loop over zip(...)
    jobid_dict,      \* commit_changes: the job registry, in insertion order
    ready_devices,   \* commit_changes: hosts whose commit finished OK
    completed_jobs,  \* commit_changes: keys finished in the running round
    idx,             \* position of the round in jobid_dict.items()
    progress,        \* the tqdm bars: name -> n
    active_fw_list,  \* PaloAltoFirewall_config.active_fw_list
    active_fw_headers, \* PaloAltoFirewall_config.active_fw_headers
    jobid,           \* PaloAltoFirewall_config.commit_changes: jobid
    check,           \* wait_for_sync_completion: check of range(max_checks)
    config_state,    \* force_sync_config: the answer to the first state request
    log,             \* what the logger was given: {<<message, host>>}
    calls,           \* requests sent and sleeps taken: name -> count
    nq,              \* QueryJobs sent in this call: host -> count
    fin_seen,        \* registry keys whose QueryJob answered FIN
    repolled,        \* registry keys queried again after they answered FIN
    removed,         \* registry keys deleted from jobid_dict, in order
    started,         \* hosts a StartCommit was sent to
    start_failed,    \* <<host, kind>>: StartCommit answers that started no job
    last_poll,       \* the answer to the latest QueryJob
    run,             \* which commit_changes call of PaloAltoFirewall_HA runs: 1 or 2
    first_verdicts,  \* what the first call had recorded per host when it returned
    script,          \* scripted devices: host -> the answers it will give
    changed,         \* scripted devices: the host whose script the second call changes
    fin_ok,          \* registry keys whose QueryJob answered FIN with result OK
    round,           \* rounds of the poll loop begun in this call
    last_fin_round,  \* the round of the latest QueryJob that answered FIN
    trigger_answer,  \* the answer to the sync-to-remote request
    last_wait,       \* the answer to the latest request of wait_for_sync_completion
    wait_clean,      \* every answer before last_wait was one of InProgressTexts
    pa_credentials,  \* PaloAltoFirewall_HA.pa_credentials: the hosts, in file order
    inserted,        \* registry keys assigned by line 269 in this call, in order
    slept,           \* host -> a delay was taken since the latest QueryJob to it
    ha_states        \* host -> the answer to the HA state query of get_active_fw

vars ==
    <<pc, api_keys_list, i, jobid_dict, ready_devices, completed_jobs, idx,
      progress, active_fw_list, active_fw_headers, jobid, check, config_state,
      log, calls, nq, fin_seen, repolled, removed, started, start_failed,
      last_poll, run, first_verdicts, script, changed, fin_ok, round,
      last_fin_round, trigger_answer, last_wait, wait_clean, pa_credentials,
      inserted, slept, ha_states>>

\* ---------------------------------------------------------- helpers
Min(a, b) == IF a < b THEN a ELSE b

\* zip(a, b): the pairs up to the shorter of the two.
Zip(a, b) == [k \in 1..Min(Len(a), Len(b)) |-> <<a[k], b[k]>>]

\* A dict as the sequence of its entries in insertion order.
DictHas(dict, k) == \E n \in 1..Len(dict) : dict[n].key = k
DictSet(dict, k, v) ==
    IF DictHas(dict, k)
    THEN [n \in 1..Len(dict) |-> IF dict[n].key = k THEN v ELSE dict[n]]
    ELSE Append(dict, v)
DictDel(dict, k) == SelectSeq(dict, LAMBDA e : e.key # k)

RECURSIVE DictDelAll(_, _)
DictDelAll(dict, keys) ==
    IF keys = <<>> THEN dict
    ELSE DictDelAll(DictDel(dict, Head(keys)), Tail(keys))

\* The keys of `keys`, in order, that are in dict when their turn to be
\* deleted comes (lines 328-332 delete only a key that is still there).
RECURSIVE Deleted(_, _)
Deleted(dict, keys) ==
    IF keys = <<>> THEN <<>>
    ELSE IF DictHas(dict, Head(keys))
         THEN <<Head(keys)>> \o Deleted(DictDel(dict, Head(keys)), Tail(keys))
         ELSE Deleted(dict, Tail(keys))

Bump(f, name) == [f EXCEPT ![name] = @ + 1]

BarNames ==
    {"get_api_keys", "commit_interfaces", "commit_ha", "act_fw_commit",
     "act_fw_check_sync"}
CallNames ==
    {"keygen", "StartCommit", "QueryJob", "QueryHAState", "TriggerSync",
     "WaitPoll", "sleep"}

\* The delays of a monitor as a host sees them: time.sleep(15) is taken in the
\* branch of status ACT only (pa_deployment_ha.py line 315,
\* pa_deployment_config.py line 379), after the QueryJob to the host.
SleptAfter(f, host, resp) ==
    IF resp = "ACT" THEN [d \in Devices |-> TRUE] ELSE [f EXCEPT ![host] = FALSE]

\* ------------------------------------------------- PaloAltoFirewall_HA

\* The registry key f"{device['host']}_{jobid}" (line 268).
unique_key(host, job) == <<host, job>>

\* The devices commit_changes walks: zip(self.pa_credentials, self.api_keys_list).
DeviceHeaders(keys) == Zip(pa_credentials, keys)

\* get_api_key, one device of the loop: a 200 answer holding a key appends the
\* key; another status or a RequestException is logged and the loop goes on; a
\* 200 answer without <key> raises IndexError, which only main() catches
\* (main_pa.py line 117): the program ends.  After the last device main() calls
\* enable_HA_interfaces, whose last statement calls commit_changes: its two
\* dicts start empty and its first loop starts (ends at once, with "No commit
\* jobs started", when no key was obtained).
HA_GetApiKey(resp) ==
    /\ pc = "get_api_key"
    /\ LET keys == IF resp = "ok" THEN Append(api_keys_list, pa_credentials[i])
                   ELSE api_keys_list
       IN /\ api_keys_list' = keys
          /\ progress' = IF resp = "ok" THEN Bump(progress, "get_api_keys") ELSE progress
          /\ calls' = Bump(calls, "keygen")
          /\ IF resp = "nokey"
             THEN /\ pc' = "crashed"
                  /\ i' = i
                  /\ log' = log
             ELSE IF i < Len(pa_credentials)
             THEN /\ pc' = "get_api_key"
                  /\ i' = i + 1
                  /\ log' = log
             ELSE IF Len(DeviceHeaders(keys)) = 0
             THEN /\ pc' = "ha_done"
                  /\ i' = 1
                  /\ log' = log \cup {<<"No commit jobs started", None>>}
             ELSE /\ pc' = "ha_start"
                  /\ i' = 1
                  /\ log' = log
    /\ UNCHANGED <<jobid_dict, ready_devices, completed_jobs, idx,
                   active_fw_list, active_fw_headers, jobid, check, config_state,
                   nq, fin_seen, repolled, removed, started, start_failed,
                   last_poll, run, first_verdicts, script, changed,
                   fin_ok, round, last_fin_round, trigger_answer, last_wait, wait_clean,
                   ha_states, pa_credentials, inserted, slept>>

\* commit_changes, step 1, one device of the loop (lines 250-281): the commit
\* request and what its answer leaves in jobid_dict.  An exception (transport,
\* or ParseError of a body that is no XML) is logged at debug level; a status
\* other than 200 and a body without <result> leave nothing; a <result> with no
\* <job> is stored under the job id None.  After the last device: return when
\* the registry is empty, else the first round of step 2 starts.
StartEntry(host, headers, job) ==
    [key |-> unique_key(host, job), host |-> host, headers |-> headers, jobid |-> job]

RegistryAfterStart(dict, host, headers, resp) ==
    IF resp.kind \in {"job", "nojob"}
    THEN DictSet(dict, unique_key(host, resp.job), StartEntry(host, headers, resp.job))
    ELSE dict

HA_StartCommit(resp) ==
    /\ pc = "ha_start"
    /\ LET zipped == DeviceHeaders(api_keys_list)
           host == zipped[i][1]
           headers == zipped[i][2]
           dict == RegistryAfterStart(jobid_dict, host, headers, resp)
           logged == IF Raises(resp.kind)
                     THEN log \cup {<<"Error committing changes", host>>}
                     ELSE log
       IN /\ jobid_dict' = dict
          /\ started' = started \cup {host}
          /\ start_failed' = IF resp.kind = "job" THEN start_failed
                              ELSE start_failed \cup {<<host, resp.kind>>}
          /\ inserted' = IF resp.kind \in {"job", "nojob"}
                         THEN Append(inserted, unique_key(host, resp.job))
                         ELSE inserted
          /\ calls' = Bump(calls, "StartCommit")
          /\ IF i < Len(zipped)
             THEN /\ i' = i + 1
                  /\ pc' = "ha_start"
                  /\ log' = logged
             ELSE IF dict = <<>>
             THEN /\ i' = i
                  /\ pc' = "ha_done"
                  /\ log' = logged \cup {<<"No commit jobs started", None>>}
             ELSE /\ i' = i
                  /\ pc' = "ha_poll"
                  /\ log' = logged
    /\ idx' = 1
    /\ completed_jobs' = <<>>
    /\ UNCHANGED <<api_keys_list, ready_devices, progress,
                   active_fw_list, active_fw_headers, jobid, check, config_state,
                   nq, fin_seen, repolled, removed, last_poll,
                   run, first_verdicts, script, changed,
                   fin_ok, round, last_fin_round, trigger_answer, last_wait, wait_clean,
                   ha_states, pa_credentials, slept>>

\* The bar commit_changes is given: commit_interfaces by enable_HA_interfaces
\* (line 145), commit_ha by ha_configuration (line 231).
progress_bar(call) == IF call = 1 THEN "commit_interfaces" ELSE "commit_ha"

\* Whether the while loop of step 2 is left after a round: by the break of
\* line 336 (as many ready devices as credentials) or by the test of the while
\* (line 285, the registry is empty).
LoopEnds_FirstReady(ready, dict) == ready # {} \/ dict = <<>>

LoopEnds(ready, dict) == Cardinality(ready) = Len(pa_credentials) \/ dict = <<>>

\* commit_changes, step 2, one entry of a round (lines 285-341): the show-jobs
\* request for the entry and the handling of its answer; after the last entry
\* of the round, the deletion of the round's completed jobs, the test of
\* ready_devices against the number of credentials and the test of the while.
\* An exception leaves the whole loop through the handler of line 340.
HA_QueryJob(resp) ==
    /\ pc = "ha_poll"
    /\ calls["QueryJob"] < MaxPolls
    /\ LET entry == jobid_dict[idx]
           host == entry.host
           fin == resp \in {"FIN_OK", "FIN_FAIL"}
           ready == IF resp = "FIN_OK" THEN ready_devices \cup {host} ELSE ready_devices
           completed == IF fin THEN Append(completed_jobs, entry.key) ELSE completed_jobs
           lastOfRound == idx = Len(jobid_dict)
           dict == DictDelAll(jobid_dict, completed)
           thisRound == IF idx = 1 THEN round + 1 ELSE round
       IN /\ nq' = [nq EXCEPT ![host] = @ + 1]
          /\ last_poll' = resp
          /\ slept' = SleptAfter(slept, host, resp)
          /\ round' = thisRound
          /\ last_fin_round' = IF fin THEN thisRound ELSE last_fin_round
          /\ fin_ok' = IF resp = "FIN_OK" THEN fin_ok \cup {entry.key} ELSE fin_ok
          /\ repolled' = IF entry.key \in fin_seen THEN repolled \cup {entry.key} ELSE repolled
          /\ fin_seen' = IF fin THEN fin_seen \cup {entry.key} ELSE fin_seen
          /\ calls' = IF resp = "ACT"
                      THEN Bump(Bump(calls, "QueryJob"), "sleep")
                      ELSE Bump(calls, "QueryJob")
          /\ IF Raises(resp)
             THEN /\ pc' = "ha_done"
                  /\ log' = log \cup {<<"Error committing changes", host>>}
                  /\ UNCHANGED <<jobid_dict, ready_devices, completed_jobs, idx,
                                 progress, removed>>
             ELSE /\ ready_devices' = ready
                  /\ progress' = IF resp = "FIN_OK"
                                 THEN Bump(progress, progress_bar(run))
                                 ELSE progress
                  /\ log' = IF resp = "FIN_FAIL"
                            THEN log \cup {<<"Job failed", host>>}
                            ELSE log
                  /\ IF ~lastOfRound
                     THEN /\ idx' = idx + 1
                          /\ completed_jobs' = completed
                          /\ pc' = "ha_poll"
                          /\ UNCHANGED <<jobid_dict, removed>>
                     ELSE /\ jobid_dict' = dict
                          /\ removed' = removed \o Deleted(jobid_dict, completed)
                          /\ idx' = 1
                          /\ completed_jobs' = <<>>
                          /\ pc' = IF LoopEnds(ready, dict) THEN "ha_done" ELSE "ha_poll"
    /\ UNCHANGED <<api_keys_list, i, active_fw_list, active_fw_headers, jobid,
                   check, config_state, started, start_failed,
                   run, first_verdicts, script, changed,
                   trigger_answer, last_wait, wait_clean,
                   ha_states, pa_credentials, inserted>>

\* The registry a call of commit_changes starts with: jobid_dict is a local
\* name bound to a new empty dict (line 246), whatever the call before left in
\* its own.
RegistryAtCall_Kept(left) == left

RegistryAtCall(left) == <<>>

\* The second commit_changes call of PaloAltoFirewall_HA: main() calls
\* ha_configuration after enable_HA_interfaces returned, and its last statement
\* calls commit_changes again, with the bar commit_ha (line 231).  The call
\* binds jobid_dict and ready_devices to new empty dicts (lines 246-247), and
\* the observations start anew.
SecondCommitCall ==
    /\ pc = "ha_done"
    /\ run = 1
    /\ run' = 2
    /\ i' = 1
    /\ jobid_dict' = RegistryAtCall(jobid_dict)
    /\ ready_devices' = {}
    /\ completed_jobs' = <<>>
    /\ idx' = 1
    /\ log' = IF Len(DeviceHeaders(api_keys_list)) = 0
              THEN {<<"No commit jobs started", None>>}
              ELSE {}
    /\ pc' = IF Len(DeviceHeaders(api_keys_list)) = 0 THEN "ha_done" ELSE "ha_start"
    /\ calls' = [c \in CallNames |-> 0]
    /\ nq' = [d \in Devices |-> 0]
    /\ fin_seen' = {}
    /\ repolled' = {}
    /\ removed' = <<>>
    /\ started' = {}
    /\ start_failed' = {}
    /\ last_poll' = "none"
    /\ fin_ok' = {}
    /\ round' = 0
    /\ last_fin_round' = 0
    /\ inserted' = <<>>
    /\ slept' = [d \in Devices |-> FALSE]
    /\ UNCHANGED <<api_keys_list, progress, active_fw_list, active_fw_headers,
                   jobid, check, config_state, trigger_answer, last_wait,
                   wait_clean,
                   ha_states, pa_credentials>>

HA_SecondCommit == SecondCommitCall /\ UNCHANGED <<first_verdicts, script, changed>>

\* The state before any request of a part: nothing observed yet, the locals
\* of commit_changes empty (lines 246-247), no PaloAltoFirewall_config yet.
NothingObserved ==
    /\ log = {}
    /\ calls = [c \in CallNames |-> 0]
    /\ nq = [d \in Devices |-> 0]
    /\ fin_seen = {}
    /\ repolled = {}
    /\ removed = <<>>
    /\ started = {}
    /\ start_failed = {}
    /\ last_poll = "none"
    /\ fin_ok = {}
    /\ round = 0
    /\ last_fin_round = 0
    /\ trigger_answer = "none"
    /\ last_wait = "none"
    /\ wait_clean = TRUE
    /\ inserted = <<>>
    /\ slept = [d \in Devices |-> FALSE]
    /\ ha_states = [d \in Devices |-> "none"]

EmptyCommitLocals ==
    /\ i = 1
    /\ jobid_dict = <<>>
    /\ ready_devices = {}
    /\ completed_jobs = <<>>
    /\ idx = 1

FirstCallUnscripted ==
    /\ run = 1
    /\ first_verdicts = <<>>
    /\ script = <<>>
    /\ changed = None

NoConfigObject ==
    /\ active_fw_list = <<>>
    /\ active_fw_headers = <<>>
    /\ jobid = Unbound
    /\ check = 0
    /\ config_state = "none"

\* PaloAltoFirewall_HA as constructed (lines 52-67), main() about to call
\* get_api_key.
InitHA ==
    /\ pa_credentials = DistinctHosts
    /\ pc = "get_api_key"
    /\ api_keys_list = <<>>
    /\ progress = [b \in BarNames |-> 0]
    /\ EmptyCommitLocals
    /\ NothingObserved
    /\ FirstCallUnscripted
    /\ NoConfigObject

NextHA ==
    \/ \E resp \in KeyResps : HA_GetApiKey(resp)
    \/ \E resp \in StartResps : HA_StartCommit(resp)
    \/ \E resp \in PollResps : HA_QueryJob(resp)
    \/ HA_SecondCommit

\* PaloAltoFirewall_HA constructed from a credentials file whose entries name
\* the same host: the same program, the keys of its registry then depending on
\* the job ids the host answers with.
InitDup ==
    /\ pa_credentials = RepeatedHost
    /\ pc = "get_api_key"
    /\ api_keys_list = <<>>
    /\ progress = [b \in BarNames |-> 0]
    /\ EmptyCommitLocals
    /\ NothingObserved
    /\ FirstCallUnscripted
    /\ NoConfigObject

SpecDup == InitDup /\ [][NextHA]_vars

\* ------------------------------------------------------ scripted devices
\* The same two calls of PaloAltoFirewall_HA.commit_changes against devices
\* that answer by a script fixed beforehand: the answer to the commit request,
\* to the first show-jobs request and to every later one.  Between the two
\* calls the script of one device changes; the other devices answer the second
\* call exactly as they answered the first.
IndStarts ==
    [kind : {"job"}, job : JobIds] \cup [kind : {"non200", "exception"}, job : {None}]
IndPolls == {"ACT", "FIN_OK", "FIN_FAIL", "non200", "exception"}
Behaviours ==
    {b \in [start : IndStarts, first : IndPolls, rest : IndPolls] :
        b.start.kind # "job" => (b.first = "ACT" /\ b.rest = "ACT")}

ScriptedPoll(host) == IF nq[host] = 0 THEN script[host].first ELSE script[host].rest

Ind_StartCommit ==
    /\ pc = "ha_start"
    /\ HA_StartCommit(script[DeviceHeaders(api_keys_list)[i][1]].start)

Ind_QueryJob ==
    /\ pc = "ha_poll"
    /\ HA_QueryJob(ScriptedPoll(jobid_dict[idx].host))

Ind_SecondCommit ==
    /\ SecondCommitCall
    /\ first_verdicts' = [ready |-> ready_devices, log |-> log]
    /\ \E d \in Devices : \E b \in Behaviours \ {script[d]} :
          /\ changed' = d
          /\ script' = [script EXCEPT ![d] = b]

\* get_api_key has obtained a key from every device, and commit_changes is at
\* its first commit request.
InitInd ==
    /\ pa_credentials = DistinctHosts
    /\ pc = "ha_start"
    /\ api_keys_list = pa_credentials
    /\ progress = [b \in BarNames |-> IF b = "get_api_keys" THEN Len(pa_credentials) ELSE 0]
    /\ EmptyCommitLocals
    /\ NothingObserved
    /\ NoConfigObject
    /\ run = 1
    /\ first_verdicts = <<>>
    /\ script \in [Devices -> Behaviours]
    /\ changed = None

NextInd ==
    \/ Ind_StartCommit
    \/ Ind_QueryJob
    \/ Ind_SecondCommit

SpecInd == InitInd /\ [][NextInd]_vars

\* --------------------------------------------- PaloAltoFirewall_config

\* commit_changes, step 1 (lines 320-353): the commit request to the active
\* firewall.  A status other than 200, a body without <result> and a <result>
\* without a job id are logged and the method returns: main() goes on to
\* force_sync_config.  An exception is logged by the handler of line 348, and
\* line 351 then reads jobid, which was never bound: the UnboundLocalError
\* leaves the method and main() (line 117), the program ends.
Cfg_StartCommit(resp) ==
    /\ pc = "cfg_start"
    /\ LET host == active_fw_list[1]
       IN /\ started' = started \cup {host}
          /\ start_failed' = IF resp.kind = "job" THEN start_failed
                              ELSE start_failed \cup {<<host, resp.kind>>}
          /\ calls' = Bump(calls, "StartCommit")
          /\ jobid' = IF resp.kind \in {"job", "nojob"} THEN resp.job ELSE jobid
          /\ pc' = CASE Raises(resp.kind) -> "crashed"
                     [] resp.kind = "job" -> "cfg_poll"
                     [] OTHER -> "sync_check"
          /\ log' = CASE Raises(resp.kind) -> log \cup {<<"Error committing changes", host>>}
                      [] resp.kind = "non200" -> log \cup {<<"Failed to start commit", host>>}
                      [] resp.kind = "noresult" -> log \cup {<<"Invalid commit response", host>>}
                      [] resp.kind = "nojob" -> log \cup {<<"No job ID found", host>>}
                      [] OTHER -> log
    /\ UNCHANGED <<api_keys_list, i, jobid_dict, ready_devices, completed_jobs,
                   idx, progress, active_fw_list, active_fw_headers, check,
                   config_state, nq, fin_seen, repolled, removed, last_poll,
                   run, first_verdicts, script, changed,
                   fin_ok, round, last_fin_round, trigger_answer, last_wait, wait_clean,
                   ha_states, pa_credentials, inserted, slept>>

\* Where the monitor of lines 355-390 goes after one answer: out of the loop
\* (and on to force_sync_config) on an exception and on FIN with result OK;
\* back to the request on every other answer.
CfgAfterPoll(resp) ==
    IF Raises(resp) \/ resp = "FIN_OK" THEN "sync_check" ELSE "cfg_poll"

\* commit_changes, step 2, one pass of the while (lines 356-390).
Cfg_QueryJob(resp) ==
    /\ pc = "cfg_poll"
    /\ calls["QueryJob"] < MaxPolls
    /\ LET host == active_fw_list[1]
           key == unique_key(host, jobid)
       IN /\ nq' = [nq EXCEPT ![host] = @ + 1]
          /\ last_poll' = resp
          /\ slept' = SleptAfter(slept, host, resp)
          /\ repolled' = IF key \in fin_seen THEN repolled \cup {key} ELSE repolled
          /\ fin_seen' = IF resp \in {"FIN_OK", "FIN_FAIL"}
                         THEN fin_seen \cup {key}
                         ELSE fin_seen
          /\ calls' = IF resp = "ACT"
                      THEN Bump(Bump(calls, "QueryJob"), "sleep")
                      ELSE Bump(calls, "QueryJob")
          /\ fin_ok' = IF resp = "FIN_OK" THEN fin_ok \cup {key} ELSE fin_ok
          /\ progress' = IF resp = "FIN_OK" THEN Bump(progress, "act_fw_commit") ELSE progress
          /\ log' = CASE Raises(resp) -> log \cup {<<"Error committing changes", host>>}
                      [] resp = "FIN_FAIL" -> log \cup {<<"Job failed", host>>}
                      [] resp = "FIN_OK" -> log \cup {<<"Commit completed successfully", host>>}
                      [] OTHER -> log
          /\ pc' = CfgAfterPoll(resp)
    /\ UNCHANGED <<api_keys_list, i, jobid_dict, ready_devices, completed_jobs,
                   idx, active_fw_list, active_fw_headers, jobid, check,
                   config_state, removed, started, start_failed,
                   run, first_verdicts, script, changed,
                   round, last_fin_round, trigger_answer, last_wait, wait_clean,
                   ha_states, pa_credentials, inserted>>

\* force_sync_config: where the answer to the first state request leads
\* (lines 411-435): nowhere on a failure and on "synchronized", into
\* wait_for_sync_completion on "synchronization in progress", to the
\* sync-to-remote request on "not synchronized"; any other text (or none)
\* matches no branch.
AfterCheck_SynchronizedWaits(resp) ==
    CASE resp \in {"synchronization in progress", "synchronized"} -> "sync_wait"
      [] resp = "not synchronized" -> "sync_trigger"
      [] OTHER -> "main_done"

AfterCheck_InProgressTriggers(resp) ==
    CASE resp \in {"synchronization in progress", "not synchronized"} -> "sync_trigger"
      [] OTHER -> "main_done"

AfterCheck_NoTrigger(resp) ==
    CASE resp \in {"synchronization in progress", "not synchronized"} -> "sync_wait"
      [] OTHER -> "main_done"

AfterCheck(resp) ==
    CASE resp = "synchronization in progress" -> "sync_wait"
      [] resp = "not synchronized" -> "sync_trigger"
      [] OTHER -> "main_done"

\* Whether line 433 (act_fw_check_sync.update) is reached from the answer: it
\* is inside the branch of status 200, after the if/elif chain.
CheckUpdatesBar(resp) == resp \in SyncTexts \ {"synchronization in progress", "not synchronized"}

Sync_Check(resp) ==
    /\ pc = "sync_check"
    /\ LET host == active_fw_list[1]
       IN /\ calls' = Bump(calls, "QueryHAState")
          /\ config_state' = resp
          /\ check' = 0
          /\ pc' = AfterCheck(resp)
          /\ progress' = IF CheckUpdatesBar(resp)
                         THEN Bump(progress, "act_fw_check_sync")
                         ELSE progress
          /\ log' = CASE Raises(resp) -> log \cup {<<"Error during configuration sync", host>>}
                      [] resp = "non200" -> log \cup {<<"Failed to sync configuration", host>>}
                      [] resp = "synchronized" -> log \cup {<<"Configuration is already synced", host>>}
                      [] OTHER -> log
    /\ UNCHANGED <<api_keys_list, i, jobid_dict, ready_devices, completed_jobs,
                   idx, active_fw_list, active_fw_headers, jobid,
                   nq, fin_seen, repolled, removed, started, start_failed,
                   last_poll, run, first_verdicts, script, changed,
                   fin_ok, round, last_fin_round, trigger_answer, last_wait, wait_clean,
                   ha_states, pa_credentials, inserted, slept>>

\* force_sync_config, the sync-to-remote request (lines 420-432): status 200
\* enters wait_for_sync_completion; another status is logged and line 433
\* follows; an exception goes to the handler of line 436.
AfterTrigger_AlwaysWaits(resp) == "sync_wait"

AfterTrigger(resp) == IF resp = "ok" THEN "sync_wait" ELSE "main_done"

Sync_Trigger(resp) ==
    /\ pc = "sync_trigger"
    /\ LET host == active_fw_list[1]
       IN /\ calls' = Bump(calls, "TriggerSync")
          /\ trigger_answer' = resp
          /\ check' = 0
          /\ pc' = AfterTrigger(resp)
          /\ progress' = IF resp = "non200"
                         THEN Bump(progress, "act_fw_check_sync")
                         ELSE progress
          /\ log' = CASE resp = "exception" -> log \cup {<<"Error during configuration sync", host>>}
                      [] resp = "non200" -> log \cup {<<"Failed to initiate configuration sync", host>>}
                      [] OTHER -> log \cup {<<"Configuration sync initiated", host>>}
    /\ UNCHANGED <<api_keys_list, i, jobid_dict, ready_devices, completed_jobs,
                   idx, active_fw_list, active_fw_headers, jobid, config_state,
                   nq, fin_seen, repolled, removed, started, start_failed,
                   last_poll, run, first_verdicts, script, changed,
                   fin_ok, round, last_fin_round, last_wait, wait_clean,
                   ha_states, pa_credentials, inserted, slept>>

\* wait_for_sync_completion, one pass of the for loop (lines 452-476): the
\* sleep, the state request and its answer.  "synchronized" breaks; an
\* exception leaves the loop through the handler of line 475; every other
\* answer goes to the next check, the loop ending after max_checks of them.
\* The method returning, force_sync_config reaches line 433.
WaitEnds_NoBudget(resp, chk) ==
    \/ resp = "synchronized"
    \/ Raises(resp)

WaitEnds_OnlyBudget(resp, chk) == chk + 1 = max_checks

WaitEnds_NoBreak(resp, chk) ==
    \/ Raises(resp)
    \/ chk + 1 = max_checks

WaitEnds(resp, chk) ==
    \/ resp = "synchronized"
    \/ Raises(resp)
    \/ chk + 1 = max_checks

\* Where one pass of the for loop leads: to the end of the call when the
\* wait ends, else to the next pass; the loop sends nothing but its state
\* request.
AfterWait_Retriggers(resp, chk) ==
    CASE WaitEnds(resp, chk) -> "main_done"
      [] resp = "not synchronized" -> "sync_trigger"
      [] OTHER -> "sync_wait"

AfterWait(resp, chk) == IF WaitEnds(resp, chk) THEN "main_done" ELSE "sync_wait"

Sync_WaitPoll(resp) ==
    /\ pc = "sync_wait"
    /\ check < max_checks
    /\ LET host == active_fw_list[1]
           ends == WaitEnds(resp, check)
       IN /\ calls' = Bump(Bump(calls, "WaitPoll"), "sleep")
          /\ check' = check + 1
          /\ last_wait' = resp
          /\ wait_clean' = (wait_clean /\ last_wait \in {"none"} \cup InProgressTexts)
          /\ pc' = AfterWait(resp, check)
          /\ progress' = IF ends THEN Bump(progress, "act_fw_check_sync") ELSE progress
          /\ log' = CASE Raises(resp) -> log \cup {<<"Error monitoring sync completion", host>>}
                      [] resp = "synchronized" ->
                           log \cup {<<"Running Config synchronization completed", host>>}
                      [] OTHER -> log
    /\ UNCHANGED <<api_keys_list, i, jobid_dict, ready_devices, completed_jobs,
                   idx, active_fw_list, active_fw_headers, jobid, config_state,
                   nq, fin_seen, repolled, removed, started, start_failed,
                   last_poll, run, first_verdicts, script, changed,
                   fin_ok, round, last_fin_round, trigger_answer,
                   ha_states, pa_credentials, inserted, slept>>

\* Every api_keys_list get_api_key can leave: the keys of the devices that
\* answered with one, in credential order.
KeyLists ==
    {s \in UNION {[1..n -> Devices] : n \in 0..NumDevices} :
        \A a, b \in 1..Len(s) : a < b => s[a] < s[b]}

\* PaloAltoFirewall_config after get_active_fw found the active firewall: the
\* device and the headers zip paired with it (lines 109-121).
InitCfg ==
    /\ pa_credentials = DistinctHosts
    /\ pc = "cfg_start"
    /\ api_keys_list \in KeyLists
    /\ \E n \in 1..Len(api_keys_list) :
          /\ active_fw_list = <<pa_credentials[n]>>
          /\ active_fw_headers = <<api_keys_list[n]>>
    /\ progress = [b \in BarNames |-> IF b = "get_api_keys" THEN Len(api_keys_list) ELSE 0]
    /\ jobid = Unbound
    /\ check = 0
    /\ config_state = "none"
    /\ EmptyCommitLocals
    /\ NothingObserved
    /\ FirstCallUnscripted

NextCfg ==
    \/ \E resp \in StartResps : Cfg_StartCommit(resp)
    \/ \E resp \in PollResps : Cfg_QueryJob(resp)
    \/ \E resp \in SyncResps : Sync_Check(resp)
    \/ \E resp \in TriggerResps : Sync_Trigger(resp)
    \/ \E resp \in SyncResps : Sync_WaitPoll(resp)

Init == InitHA \/ InitCfg

Next == NextHA \/ NextCfg

Spec == Init /\ [][Next]_vars

\* One call of force_sync_config, with its scheduling.  main() calls it when
\* commit_changes has returned (main_pa.py line 115): jobid was left unbound
\* (the commit request answered another status than 200), None, or a job id,
\* and the bar act_fw_commit was advanced or not.  The observations start
\* with the call.  The program is sequential and every request of
\* force_sync_config and wait_for_sync_completion is answered or fails, so
\* the step that is due is taken.
InitSync ==
    /\ pa_credentials = DistinctHosts
    /\ pc = "sync_check"
    /\ api_keys_list \in KeyLists
    /\ \E n \in 1..Len(api_keys_list) :
          /\ active_fw_list = <<pa_credentials[n]>>
          /\ active_fw_headers = <<api_keys_list[n]>>
    /\ \E done \in {0, 1} :
          progress = [b \in BarNames |->
                         CASE b = "get_api_keys" -> Len(api_keys_list)
                           [] b = "act_fw_commit" -> done
                           [] OTHER -> 0]
    /\ jobid \in {Unbound, None} \cup JobIds
    /\ check = 0
    /\ config_state = "none"
    /\ EmptyCommitLocals
    /\ NothingObserved
    /\ FirstCallUnscripted

NextSync ==
    \/ \E resp \in SyncResps : Sync_Check(resp)
    \/ \E resp \in TriggerResps : Sync_Trigger(resp)
    \/ \E resp \in SyncResps : Sync_WaitPoll(resp)

SpecSyncFair ==
    /\ InitSync
    /\ [][NextSync]_vars
    /\ WF_vars(\E resp \in SyncResps : Sync_Check(resp))
    /\ WF_vars(\E resp \in TriggerResps : Sync_Trigger(resp))
    /\ WF_vars(\E resp \in SyncResps : Sync_WaitPoll(resp))

\* ------------------------------- get_active_fw and the act_fw_* steps

\* What a device answers to the HA state query of get_active_fw: no answer
\* (RequestException), another status than 200, a body that is not XML, XML
\* without a <state> element, the state "active", another state.
ActiveResps == {"exception", "non200", "malformed", "nostate", "active", "passive"}

\* What the active firewall answers to a configuration request.
ConfigResps == {"exception", "non200", "ok"}

\* The steps main() takes after get_active_fw while active_fw_list is empty
\* (main_pa.py lines 109-111): line 145 and line 181 raise IndexError before
\* any request and the handlers log it (lines 166-167, 197-198); line 214
\* raises it too and the handler of line 249 raises it again at line 250, out
\* of the method and out of the try of main(): the program ends before
\* commit_changes and force_sync_config.
NoActiveFirewall(logged) ==
    logged \cup {<<"Error in interface configuration process", None>>,
                 <<"Error configuring zones", None>>}

\* Where get_active_fw goes after one answer (lines 112-128): "active" ends
\* the loop with the device selected; a status other than 200 and another
\* state go on to the next pair of zip, if any; a RequestException ends the
\* loop in the handler of line 127; a body without <state> raises at line 115
\* or 116 what no handler of the method catches.  Every end without a
\* selected device ends the program (NoActiveFirewall, or main's handler).
AfterActiveQuery(resp, last) ==
    CASE resp = "active" -> "act_fw_int"
      [] resp \in {"non200", "passive"} /\ ~last -> "get_active_fw"
      [] OTHER -> "crashed"

\* get_active_fw, one HA state query: to the device of the i-th pair of
\* zip(pa_credentials, api_keys_list), with the headers of that pair.
Cfg_GetActiveFw(resp) ==
    /\ pc = "get_active_fw"
    /\ LET zipped == DeviceHeaders(api_keys_list)
       IN /\ i <= Len(zipped)
          /\ LET host == zipped[i][1]
                 headers == zipped[i][2]
                 next == AfterActiveQuery(resp, i = Len(zipped))
             IN /\ ha_states' = [ha_states EXCEPT ![host] = resp]
                /\ active_fw_list' = IF resp = "active"
                                      THEN Append(active_fw_list, host)
                                      ELSE active_fw_list
                /\ active_fw_headers' = IF resp = "active"
                                         THEN Append(active_fw_headers, headers)
                                         ELSE active_fw_headers
                /\ pc' = next
                /\ i' = IF next = "get_active_fw" THEN i + 1 ELSE i
                /\ log' = LET seen == CASE resp = "non200" ->
                                             log \cup {<<"Failed to get HA state", host>>}
                                        [] resp = "exception" ->
                                             log \cup {<<"'active_fw' not found in credentials", None>>}
                                        [] OTHER -> log
                          IN IF next = "crashed" /\ resp \in {"non200", "passive", "exception"}
                             THEN NoActiveFirewall(seen)
                             ELSE seen
    /\ UNCHANGED <<api_keys_list, jobid_dict, ready_devices, completed_jobs,
                   idx, progress, jobid, check, config_state, calls, nq,
                   fin_seen, repolled, removed, started, start_failed,
                   last_poll, run, first_verdicts, script, changed, fin_ok,
                   round, last_fin_round, trigger_answer, last_wait,
                   wait_clean, pa_credentials, inserted, slept>>

\* get_active_fw when get_api_key returned no key: zip is empty, no query is
\* sent, no device is selected.
Cfg_GetActiveFwNoKeys ==
    /\ pc = "get_active_fw"
    /\ DeviceHeaders(api_keys_list) = <<>>
    /\ pc' = "crashed"
    /\ log' = NoActiveFirewall(log)
    /\ UNCHANGED <<api_keys_list, i, jobid_dict, ready_devices, completed_jobs,
                   idx, progress, active_fw_list, active_fw_headers, jobid,
                   check, config_state, calls, nq, fin_seen, repolled,
                   removed, started, start_failed, last_poll, run,
                   first_verdicts, script, changed, fin_ok, round,
                   last_fin_round, trigger_answer, last_wait, wait_clean,
                   ha_states, pa_credentials, inserted, slept>>

\* The configuration requests of act_fw_int_config .. act_fw_source_nat_config
\* in the order main() sends them (main_pa.py lines 109-113).  Each method
\* catches every exception of its request (lines 166, 197, 249, 278, 307), so
\* the next request follows whatever the answer; an exception of the first
\* request of act_fw_route_config skips its second one (lines 223, 241).
ActFwPoints ==
    {"act_fw_int", "act_fw_zone", "act_fw_route", "act_fw_default_route",
     "act_fw_policy", "act_fw_nat"}

AfterConfig(point, resp) ==
    CASE point = "act_fw_int" -> "act_fw_zone"
      [] point = "act_fw_zone" -> "act_fw_route"
      [] point = "act_fw_route" ->
            IF resp = "exception" THEN "act_fw_policy" ELSE "act_fw_default_route"
      [] point = "act_fw_default_route" -> "act_fw_policy"
      [] point = "act_fw_policy" -> "act_fw_nat"
      [] point = "act_fw_nat" -> "cfg_start"

\* One configuration request to the selected device.  The bars and the log
\* lines of these five methods are no part of the state: no request of
\* commit_changes or force_sync_config depends on them.
ActFw_Configure(resp) ==
    /\ pc \in ActFwPoints
    /\ active_fw_list # <<>>
    /\ pc' = AfterConfig(pc, resp)
    /\ i' = IF pc' = "cfg_start" THEN 1 ELSE i
    /\ UNCHANGED <<api_keys_list, jobid_dict, ready_devices, completed_jobs,
                   idx, progress, active_fw_list, active_fw_headers, jobid,
                   check, config_state, log, calls, nq, fin_seen, repolled,
                   removed, started, start_failed, last_poll, run,
                   first_verdicts, script, changed, fin_ok, round,
                   last_fin_round, trigger_answer, last_wait, wait_clean,
                   ha_states, pa_credentials, inserted, slept>>

\* PaloAltoFirewall_config as constructed (lines 57-92) with the list
\* get_api_key returned (main_pa.py lines 89, 94-105), main() about to call
\* get_active_fw.
InitActive ==
    /\ pa_credentials = DistinctHosts
    /\ pc = "get_active_fw"
    /\ api_keys_list \in KeyLists
    /\ progress = [b \in BarNames |-> IF b = "get_api_keys" THEN Len(api_keys_list) ELSE 0]
    /\ NoConfigObject
    /\ EmptyCommitLocals
    /\ NothingObserved
    /\ FirstCallUnscripted

NextActive ==
    \/ \E resp \in ActiveResps : Cfg_GetActiveFw(resp)
    \/ Cfg_GetActiveFwNoKeys
    \/ \E resp \in ConfigResps : ActFw_Configure(resp)
    \/ NextCfg

SpecActive == InitActive /\ [][NextActive]_vars

\* =============================================================== claims

\* Control points of PaloAltoFirewall_HA.commit_changes and of
\* PaloAltoFirewall_config.commit_changes.
HAPoints == {"ha_start", "ha_poll", "ha_done"}
CfgPoints == {"cfg_start", "cfg_poll"}

\* The device set of one commit_changes call of PaloAltoFirewall_HA: the hosts
\* zip pairs with headers.
DeviceSet == {DeviceHeaders(api_keys_list)[n][1] : n \in 1..Len(DeviceHeaders(api_keys_list))}

\* What commit_changes has recorded about a host when it returns: the host is
\* in ready_devices (Committed), its job was logged as failed (CommitFailed),
\* an error of a request to it was logged (CommunicationError).
VerdictsIn(ready, logged, host) ==
    {v \in {"Committed", "CommitFailed", "CommunicationError"} :
        \/ v = "Committed" /\ host \in ready
        \/ v = "CommitFailed" /\ <<"Job failed", host>> \in logged
        \/ v = "CommunicationError" /\ <<"Error committing changes", host>> \in logged}

Verdicts(host) == VerdictsIn(ready_devices, log, host)

\* Occurrences of key in the sequence of deleted keys.
TimesRemoved(key) == Cardinality({n \in 1..Len(removed) : removed[n] = key})

\* C1 (as claimed): when PaloAltoFirewall_HA.commit_changes has returned, every
\* device of the device set has exactly one verdict.
C1_ExactlyOneVerdictPerDevice ==
    pc = "ha_done" => \A d \in DeviceSet : Cardinality(Verdicts(d)) = 1

\* C2 (as claimed): in the multi-device loop no entry is queried again after
\* it answered FIN, and when the loop has ended every entry that answered FIN
\* was deleted from the registry exactly once.
C2_FinishedRemovedOnceNeverRepolled ==
    pc \in HAPoints =>
        /\ repolled = {}
        /\ pc = "ha_done" => \A k \in fin_seen : TimesRemoved(k) = 1

\* C3 (as claimed): in the single-device monitor, once the job answered FIN
\* (result OK or not) no further QueryJob is sent and the monitor has stopped.
C3_NoRetryAfterFinished ==
    /\ pc \in CfgPoints => repolled = {}
    /\ pc = "cfg_poll" => fin_seen = {}

\* C4 (as claimed): neither commit monitor sends a QueryJob once the time
\* budget (TimeBudget delays of 15 s) is used up.
C4_NoPollAfterTimeBudget ==
    [][calls'["QueryJob"] > calls["QueryJob"] => calls["sleep"] < TimeBudget]_vars

\* C5 (as claimed): a device whose StartCommit started no job has the verdict
\* CommunicationError from then on, and when step 1 of
\* PaloAltoFirewall_HA.commit_changes is over StartCommit was sent to every
\* device of the device set.
C5_StartFailureIsCommunicationError ==
    pc \in HAPoints =>
        /\ \A f \in start_failed : "CommunicationError" \in Verdicts(f[1])
        /\ pc \in {"ha_poll", "ha_done"} => started = DeviceSet

\* C6 (as claimed): a device whose StartCommit started no job has no registry
\* entry and is never sent a QueryJob, in either commit monitor.
C6_FailedStartNeverInRegistry ==
    \A f \in start_failed :
        /\ nq[f[1]] = 0
        /\ \A n \in 1..Len(jobid_dict) : jobid_dict[n].host # f[1]

\* C7 (as claimed): a QueryJob that fails by a transport exception or by a body
\* that does not parse does not end the poll loop (the entry stays live and
\* the loop goes on), and is not logged as a failed job, in either monitor.
C7_PollFailureKeepsPolling ==
    [][(calls'["QueryJob"] > calls["QueryJob"] /\ Raises(last_poll')) =>
          /\ pc' \in {"ha_poll", "cfg_poll"}
          /\ jobid_dict' = jobid_dict
          /\ log' \ log \subseteq {<<"Error committing changes", h>> : h \in Devices}]_vars

\* C8 (as claimed): the two calls differing only in the answers of one device,
\* every other device has in the second call the verdict it had in the first.
C8_OtherDevicesUnaffected ==
    (run = 2 /\ pc = "ha_done") =>
        \A d \in Devices \ {changed} :
            Verdicts(d) = VerdictsIn(first_verdicts.ready, first_verdicts.log, d)

\* C9: when the first state request of force_sync_config answers
\* "synchronized", the call is over with "already synced" logged, and neither
\* a sync-to-remote request nor a request of wait_for_sync_completion was sent.
C9_SynchronizedIsNoOp ==
    config_state = "synchronized" =>
        /\ pc = "main_done"
        /\ calls["TriggerSync"] = 0
        /\ calls["WaitPoll"] = 0
        /\ <<"Configuration is already synced", active_fw_list[1]>> \in log

C9_Witness ==
    /\ config_state = "synchronized"
    /\ pc = "main_done"
    /\ calls["QueryHAState"] = 1

\* C10: when the first state request answers "not synchronized", the
\* sync-to-remote request is the next request, it is sent once and never
\* again, and no request of wait_for_sync_completion precedes it.
C10_OneTriggerBeforeWaiting ==
    config_state = "not synchronized" =>
        /\ calls["TriggerSync"] <= 1
        /\ pc = "sync_trigger" <=> calls["TriggerSync"] = 0
        /\ calls["TriggerSync"] = 0 => calls["WaitPoll"] = 0

C10_Witness ==
    /\ config_state = "not synchronized"
    /\ calls["TriggerSync"] = 1
    /\ calls["WaitPoll"] > 1

\* C11 (as claimed): a wait_for_sync_completion whose requests never answered
\* "synchronized" is over after exactly max_checks requests, not fewer.
C11_TimedOutAfterExactlyMaxChecks ==
    (pc = "main_done" /\ calls["WaitPoll"] > 0 /\ last_wait # "synchronized") =>
        calls["WaitPoll"] = max_checks

\* C12: when the requests of wait_for_sync_completion answered "in progress"
\* k-1 times and then "synchronized" at request k (1 <= k <= max_checks), the
\* wait is over as synchronized ("completed" is logged, nothing more is sent)
\* and it took exactly k checks.
C12_SynchronizedAtCheckK ==
    (last_wait = "synchronized" /\ wait_clean) =>
        /\ pc = "main_done"
        /\ check = calls["WaitPoll"]
        /\ check \in 1..max_checks
        /\ <<"Running Config synchronization completed", active_fw_list[1]>> \in log
        /\ <<"Error monitoring sync completion", active_fw_list[1]>> \notin log

C12_Witness ==
    /\ last_wait = "synchronized"
    /\ wait_clean
    /\ calls["WaitPoll"] = max_checks
    /\ pc = "main_done"

\* The hosts whose StartCommit left an entry in the registry (a job id, or the
\* job id None), and the hosts of a set of registry keys.
Entered == {h \in started : \A f \in start_failed : f[1] = h => f[2] = "nojob"}
HostsOf(keys) == {k[1] : k \in keys}

\* C13: jobs that answer FIN in different rounds with different results: the
\* poll loop of PaloAltoFirewall_HA.commit_changes runs on only while an entry
\* that has not answered FIN is live, and when it has ended (no request having
\* raised) it ended in the round of the latest FIN, every entry answered FIN
\* and was deleted, and each device has the verdict of its own job's result:
\* Committed for FIN/OK, CommitFailed for FIN with another result.
C13_EndsInRoundOfLastFinished ==
    /\ pc = "ha_poll" => \A n \in idx..Len(jobid_dict) : jobid_dict[n].key \notin fin_seen
    /\ (pc = "ha_done" /\ round > 0 /\ ~Raises(last_poll)) =>
          /\ round = last_fin_round
          /\ jobid_dict = <<>>
          /\ Entered = HostsOf(fin_seen)
          /\ \A d \in HostsOf(fin_ok) : Verdicts(d) = {"Committed"}
          /\ \A d \in HostsOf(fin_seen \ fin_ok) : Verdicts(d) = {"CommitFailed"}

C13_Witness ==
    /\ pc = "ha_done"
    /\ round = 2
    /\ unique_key(1, 1) \in fin_ok
    /\ unique_key(2, 1) \in fin_seen \ fin_ok
    /\ nq[1] = 1
    /\ nq[2] = 2
    /\ last_fin_round = 2
    /\ Verdicts(1) = {"Committed"}
    /\ Verdicts(2) = {"CommitFailed"}

\* C14 (as claimed): a request of wait_for_sync_completion that fails by a
\* transport exception or by a body that does not parse takes one check and
\* does not end the wait: unless it was the last of the max_checks checks, the
\* wait goes on.
C14_WaitPollFailureKeepsWaiting ==
    (calls["WaitPoll"] > 0 /\ Raises(last_wait)) =>
        /\ check = calls["WaitPoll"]
        /\ check < max_checks => pc = "sync_wait"

\* What force_sync_config records as a failure of the sync: one of its three
\* logger.error lines (432, 435, 437) or the one of wait_for_sync_completion
\* (476).
SyncFailureLogged ==
    \E m \in {"Error during configuration sync", "Failed to sync configuration",
               "Failed to initiate configuration sync",
               "Error monitoring sync completion"} :
        <<m, active_fw_list[1]>> \in log

\* C15 (as claimed): when the first state request of force_sync_config fails
\* or answers an unknown state, the call is over as failed: no sync-to-remote
\* request and no request of wait_for_sync_completion is sent, a failure is
\* logged, and the bar act_fw_check_sync is not advanced as it is for a
\* synchronized pair.
C15_UnknownOrFailedCheckIsFailed ==
    config_state \in {"unknown", "non200", "exception", "malformed"} =>
        /\ pc = "main_done"
        /\ calls["TriggerSync"] = 0
        /\ calls["WaitPoll"] = 0
        /\ SyncFailureLogged
        /\ progress["act_fw_check_sync"] = 0

\* C16: when the sync-to-remote request is rejected (a status other than 200)
\* or raises, force_sync_config is over as failed (an error is logged) and no
\* request of wait_for_sync_completion is sent; after a sync-to-remote request
\* the wait is entered only if the request was accepted.
C16_RejectedTriggerNeverWaits ==
    /\ trigger_answer \in {"non200", "exception"} =>
          /\ pc = "main_done"
          /\ calls["WaitPoll"] = 0
          /\ SyncFailureLogged
    /\ (calls["TriggerSync"] > 0 /\ (pc = "sync_wait" \/ calls["WaitPoll"] > 0)) =>
          trigger_answer = "ok"

C16_Witness ==
    /\ trigger_answer = "non200"
    /\ calls["TriggerSync"] = 1
    /\ pc = "main_done"

\* C17 (as claimed): when PaloAltoFirewall_HA.commit_changes has returned with
\* entries still live in the registry (entries that never answered FIN), every
\* device of such an entry has the verdict CommunicationError.
C17_LiveEntriesAreCommunicationError ==
    pc = "ha_done" =>
        \A n \in 1..Len(jobid_dict) :
            jobid_dict[n].key \notin fin_seen =>
                "CommunicationError" \in Verdicts(jobid_dict[n].host)

\* C18 (as claimed): whatever the devices answer to StartCommit and QueryJob,
\* neither commit_changes raises: the program is never ended by an exception
\* once a commit request was sent.
C18_CommitChangesNeverRaises ==
    pc = "crashed" => calls["StartCommit"] = 0

\* C19 (as claimed): force_sync_config sends its state request and its
\* sync-to-remote request only after the commit_changes before it saw its
\* commit job answer FIN with result OK.
C19_SyncOnlyAfterCommitOk ==
    calls["QueryHAState"] + calls["TriggerSync"] > 0 =>
        unique_key(active_fw_list[1], jobid) \in fin_ok

\* C20 (as claimed): a round of the poll loop of
\* PaloAltoFirewall_HA.commit_changes takes its delay once, after the round:
\* no delay is taken between the QueryJobs of two entries of the same round,
\* however many entries answer that their job is running.
C20_NoDelayBetweenEntriesOfARound ==
    [][(pc = "ha_poll" /\ calls'["QueryJob"] > calls["QueryJob"]
            /\ idx < Len(jobid_dict)) =>
          calls'["sleep"] = calls["sleep"]]_vars

\* C21 (as claimed): an insert whose key (host, job id) is already in the
\* registry fails: no key is assigned into jobid_dict twice in one call, so no
\* entry is overwritten.
C21_DuplicateKeyInsertFails ==
    pc \in HAPoints =>
        \A a, b \in 1..Len(inserted) : a # b => inserted[a] # inserted[b]

\* C22: the first request of wait_for_sync_completion that answers
\* "synchronized" ends the wait at once, however many checks remain: the
\* program is at its end, where nothing is requested and no delay is taken,
\* and every request of the wait took one check; and the wait is recorded as
\* completed only when its latest request answered "synchronized".
C22_FirstSynchronizedEndsWait ==
    /\ last_wait = "synchronized" =>
          /\ pc = "main_done"
          /\ check = calls["WaitPoll"]
          /\ check <= max_checks
    /\ \A h \in Devices :
          <<"Running Config synchronization completed", h>> \in log =>
              last_wait = "synchronized"

C22_Witness ==
    /\ last_wait = "synchronized"
    /\ check = 3
    /\ ~wait_clean
    /\ pc = "main_done"

\* C23: when the first state request of force_sync_config answers
\* "synchronization in progress", wait_for_sync_completion is what follows:
\* its loop runs, and no sync-to-remote request is sent at any point of the
\* call.
C23_InProgressGoesToWaiting ==
    config_state = "synchronization in progress" =>
        /\ calls["TriggerSync"] = 0
        /\ trigger_answer = "none"
        /\ pc \in {"sync_wait", "main_done"}
        /\ pc = "main_done" => calls["WaitPoll"] > 0
        /\ pc = "sync_wait" => check = calls["WaitPoll"]

C23_Witness ==
    /\ config_state = "synchronization in progress"
    /\ calls["WaitPoll"] = 2
    /\ pc = "sync_wait"

\* C24 (as claimed): in the poll loop of PaloAltoFirewall_HA.commit_changes a
\* host is in ready_devices, and counted on the bar of the call, exactly when
\* a QueryJob for its job answered FIN with result OK; its job is logged as
\* failed exactly when the answer was FIN with another result; and once the
\* round of the answer is over (the next round is about to begin, or the
\* method has returned) the entry has been deleted from the registry.
C24_FinishedClassifiedAndRemoved ==
    pc \in HAPoints =>
        /\ ready_devices = HostsOf(fin_ok)
        /\ progress[progress_bar(run)] = Cardinality(fin_ok)
        /\ \A h \in Devices :
              <<"Job failed", h>> \in log <=> h \in HostsOf(fin_seen \ fin_ok)
        /\ (pc = "ha_done" \/ idx = 1) =>
              \A k \in fin_seen : TimesRemoved(k) = 1 /\ ~DictHas(jobid_dict, k)

\* C25 (as claimed): every round of the poll loop sends one QueryJob to every
\* entry that was live when the round began, in insertion order (after r
\* rounds a live entry was queried r times, and within round r the entries
\* before the position of the round r times, the others r-1 times); the
\* registry is not changed while the round iterates (the finished entries of
\* the round are still in it, only entries that answered FIN are ever
\* deleted); and an entry that answered ACT is live in the next round.
C25_OneQueryPerLiveEntryPerRound ==
    pc \in HAPoints =>
        /\ pc = "ha_poll" =>
              /\ \A n \in 1..Len(jobid_dict) :
                    nq[jobid_dict[n].host] =
                        IF n < idx \/ idx = 1 THEN round ELSE round - 1
              /\ \A n \in 1..Len(completed_jobs) : DictHas(jobid_dict, completed_jobs[n])
        /\ pc = "ha_done" =>
              \A n \in 1..Len(jobid_dict) : nq[jobid_dict[n].host] = round
        /\ \A n \in 1..Len(removed) : removed[n] \in fin_seen
        /\ last_poll = "ACT" => pc = "ha_poll"

\* C26 (as claimed): when PaloAltoFirewall_HA.commit_changes has returned (the
\* state from which the caller goes on to ha_configuration, and after it to
\* the configuration of the active firewall), every job it started is
\* settled: its entry answered FIN and was deleted, or its device has the
\* verdict CommunicationError.
C26_ReturnIsABarrier ==
    pc = "ha_done" =>
        \A n \in 1..Len(inserted) :
            \/ inserted[n] \in fin_seen /\ TimesRemoved(inserted[n]) = 1
            \/ "CommunicationError" \in Verdicts(inserted[n][1])

\* C27 (as claimed): in both commit monitors, between two consecutive
\* QueryJobs for the same job a delay is taken, whatever the first of them
\* answered.
C27_DelayBetweenQueriesOfAJob ==
    [][\A h \in Devices : (nq'[h] > nq[h] /\ nq[h] > 0) => slept[h]]_vars

\* The control points of force_sync_config before its end.
SyncPoints == {"sync_check", "sync_trigger", "sync_wait"}

\* C28: whatever the device answers, one call of force_sync_config sends at
\* most one first state request, at most one sync-to-remote request and at
\* most max_checks requests of wait_for_sync_completion, each of these after
\* exactly one delay (and no other delay is taken in the call), and the call
\* comes to its end.
C28_SyncWithinBudgetAndTerminates ==
    /\ [](/\ calls["QueryHAState"] <= 1
          /\ calls["TriggerSync"] <= 1
          /\ calls["WaitPoll"] <= max_checks
          /\ check = calls["WaitPoll"]
          /\ pc = "sync_wait" => check < max_checks)
    /\ [][/\ calls'["WaitPoll"] > calls["WaitPoll"] =>
               /\ calls'["WaitPoll"] = calls["WaitPoll"] + 1
               /\ calls'["sleep"] = calls["sleep"] + 1
          /\ (pc \in SyncPoints /\ calls'["WaitPoll"] = calls["WaitPoll"]) =>
               calls'["sleep"] = calls["sleep"]]_vars
    /\ (pc \in SyncPoints) ~> (pc = "main_done")

C28_Witness ==
    /\ pc = "main_done"
    /\ calls["QueryHAState"] = 1
    /\ calls["TriggerSync"] = 1
    /\ calls["WaitPoll"] = max_checks
    /\ last_wait # "synchronized"

\* The keys line 269 assigned in the running call.
InsertedKeys == {inserted[n] : n \in 1..Len(inserted)}

\* C29: every call of PaloAltoFirewall_HA.commit_changes starts with an empty
\* registry and an empty ready_devices; what a call holds, queries and counts
\* as ready is what the call itself inserted (nothing an earlier call left),
\* and the registry changes in the steps of commit_changes only.
C29_RegistryPrivateToOneCall ==
    /\ [](pc \in {"get_api_key"} \cup HAPoints =>
            /\ calls["StartCommit"] = 0 => (jobid_dict = <<>> /\ ready_devices = {})
            /\ \A n \in 1..Len(jobid_dict) : jobid_dict[n].key \in InsertedKeys
            /\ \A h \in Devices : nq[h] > 0 => h \in HostsOf(InsertedKeys)
            /\ ready_devices \subseteq HostsOf(InsertedKeys))
    /\ [][/\ run' # run => (jobid_dict' = <<>> /\ ready_devices' = {})
          /\ jobid_dict' # jobid_dict => pc \in HAPoints]_vars

C29_Witness ==
    /\ run = 2
    /\ progress["commit_interfaces"] = 1
    /\ pc = "ha_done"
    /\ round > 0
    /\ ready_devices = {}
    /\ jobid_dict = <<>>

\* C30: one call of force_sync_config sends at most one sync-to-remote
\* request, and only after its first state request answered "not
\* synchronized"; wait_for_sync_completion never sends one: a request of the
\* wait that answers "not synchronized" or an unrecognised state only takes
\* one check, and no sync-to-remote request follows a request of the wait.
C30_NoTriggerFromWaiting ==
    /\ calls["TriggerSync"] <= 1
    /\ (calls["TriggerSync"] = 1 \/ pc = "sync_trigger") => config_state = "not synchronized"
    /\ calls["WaitPoll"] > 0 =>
          /\ pc \in {"sync_wait", "main_done"}
          /\ check = calls["WaitPoll"]
          /\ calls["TriggerSync"] = (IF trigger_answer = "ok" THEN 1 ELSE 0)
    /\ (last_wait \in {"not synchronized", "unknown"} /\ check < max_checks) =>
          pc = "sync_wait"

C30_Witness ==
    /\ last_wait = "not synchronized"
    /\ config_state = "synchronization in progress"
    /\ calls["TriggerSync"] = 0
    /\ check = 2
    /\ pc = "sync_wait"

\* The (host, key) pairs of the StartCommits the running call of
\* PaloAltoFirewall_HA.commit_changes has sent: the pairs of zip up to the
\* position of its first loop.  A key is named by the host get_api_key
\* obtained it from.
StartCommitsSent ==
    LET zipped == DeviceHeaders(api_keys_list)
    IN {zipped[n] : n \in 1..(IF pc = "ha_start" THEN i - 1 ELSE Len(zipped))}

\* The hosts get_api_key obtained a key from.
KeyHosts == {api_keys_list[n] : n \in 1..Len(api_keys_list)}

\* C31 (as claimed): every StartCommit and every QueryJob of
\* PaloAltoFirewall_HA.commit_changes goes to a host with the key get_api_key
\* obtained from that host, and when the first loop is over every device a key
\* was obtained from was sent a StartCommit, whichever earlier device of the
\* file gave no key.
C31_RequestsCarryOwnKey ==
    pc \in HAPoints =>
        /\ \A p \in StartCommitsSent : p[2] = p[1]
        /\ \A n \in 1..Len(jobid_dict) : jobid_dict[n].headers = jobid_dict[n].host
        /\ pc \in {"ha_poll", "ha_done"} => {p[1] : p \in StartCommitsSent} = KeyHosts

\* The devices that come before host in the credentials file.
Earlier(host) ==
    {pa_credentials[m] : m \in {n \in 1..Len(pa_credentials) :
        \E k \in (n + 1)..Len(pa_credentials) : pa_credentials[k] = host}}

\* The requests of commit_changes, force_sync_config and
\* wait_for_sync_completion sent so far.
Phase2Requests ==
    calls["StartCommit"] + calls["QueryJob"] + calls["QueryHAState"]
        + calls["TriggerSync"] + calls["WaitPoll"]

\* C32 (as claimed): get_active_fw selects at most one device, the first in
\* credential order whose HA state query reported active; every StartCommit,
\* QueryJob, QueryHAState and TriggerSync of PaloAltoFirewall_config goes to
\* that device (active_fw_list[0]) with that device's own key
\* (active_fw_headers[0]); when no device reported active none of these
\* requests is sent.
C32_RequestsOnlyToActiveWithItsKey ==
    /\ Len(active_fw_list) <= 1
    /\ \A d \in Devices :
          active_fw_list = <<d>> =>
              /\ ha_states[d] = "active"
              /\ \A e \in Earlier(d) : ha_states[e] # "active"
              /\ started \subseteq {d}
              /\ \A h \in Devices : nq[h] > 0 => h = d
              /\ Phase2Requests > 0 => active_fw_headers = <<d>>
    /\ active_fw_list = <<>> => Phase2Requests = 0

\* C33 (as claimed): the bar act_fw_check_sync is advanced at most once per
\* force_sync_config call, and only when the device ended the call
\* synchronized: the first state answer was "synchronized", or an answer of
\* the wait was; not after a rejected trigger, an unknown state or an
\* exhausted wait.
C33_SyncBarOnlyWhenSynchronized ==
    /\ progress["act_fw_check_sync"] <= 1
    /\ progress["act_fw_check_sync"] = 1 =>
          \/ config_state = "synchronized"
          \/ last_wait = "synchronized"

====
